---- MODULE Spec2Model ----
(***************************************************************************)
(* Model of pycom0com: the abstract interface Com0comBase with PortPair    *)
(* (com0com/base.py) and the direct runner Com0comRunner                   *)
(* (com0com/runner.py).                                                    *)
(*                                                                         *)
(* A Python str is a sequence of one-character strings, a list is a        *)
(* sequence, a dict is the sequence of its <<key, value>> items in         *)
(* iteration order (keys unique).                                          *)
(***************************************************************************)
EXTENDS Integers, Sequences, FiniteSets, TLC

\* ------------------------------------------------------------------ bounds

\* Largest number of lines the external command prints.
MaxLines == 3
\* Largest number of entries of a parameter mapping.
MaxParams == 2
\* Largest pair number a PortPair is built from.
MaxN == 120

\* ------------------------------------------------------- Python primitives

\* None: a value that no str (sequence of single characters) equals.
None == <<"None">>

DigitChars == <<"0", "1", "2", "3", "4", "5", "6", "7", "8", "9">>

IsDigit(c) == \E i \in 1..10 : DigitChars[i] = c

DigitVal(c) == (CHOOSE i \in 1..10 : DigitChars[i] = c) - 1

\* str(n) for an int n >= 0: its decimal digits, most significant first.
RECURSIVE str(_)
str(n) ==
    IF n < 10 THEN <<DigitChars[n + 1]>>
    ELSE Append(str(n \div 10), DigitChars[(n % 10) + 1])

\* int(s) for a str s: [ok |-> FALSE] stands for ValueError (s is empty or
\* holds a character that is no digit).
RECURSIVE int_digits(_, _)
int_digits(s, acc) ==
    IF s = <<>> THEN acc
    ELSE int_digits(Tail(s), acc * 10 + DigitVal(Head(s)))

int(s) ==
    IF s = <<>> \/ \E i \in 1..Len(s) : ~IsDigit(s[i])
    THEN [ok |-> FALSE, value |-> 0]
    ELSE [ok |-> TRUE, value |-> int_digits(s, 0)]

\* s.lstrip(chars): drop leading characters while they belong to chars.
RECURSIVE lstrip(_, _)
lstrip(s, chars) ==
    IF s # <<>> /\ Head(s) \in chars THEN lstrip(Tail(s), chars) ELSE s

RECURSIVE rstrip(_, _)
rstrip(s, chars) ==
    IF s # <<>> /\ s[Len(s)] \in chars
    THEN rstrip(SubSeq(s, 1, Len(s) - 1), chars)
    ELSE s

Whitespace == {" ", "\t", "\n", "\r"}

\* s.strip(): surrounding whitespace removed.
strip(s) == rstrip(lstrip(s, Whitespace), Whitespace)

LineBreaks == {"\n", "\r"}

\* s.splitlines(): split at line boundaries ("\r\n" is one boundary); the
\* boundaries are dropped and a final boundary opens no further line.
RECURSIVE splitlines_from(_, _, _)
splitlines_from(s, i, cur) ==
    IF i > Len(s) THEN (IF cur = <<>> THEN <<>> ELSE <<cur>>)
    ELSE IF s[i] = "\r" /\ i < Len(s) /\ s[i + 1] = "\n"
         THEN <<cur>> \o splitlines_from(s, i + 2, <<>>)
    ELSE IF s[i] \in LineBreaks
         THEN <<cur>> \o splitlines_from(s, i + 1, <<>>)
    ELSE splitlines_from(s, i + 1, Append(cur, s[i]))

splitlines(s) == splitlines_from(s, 1, <<>>)

\* sep.join(parts)
RECURSIVE join(_, _)
join(sep, parts) ==
    IF parts = <<>> THEN <<>>
    ELSE IF Len(parts) = 1 THEN parts[1]
    ELSE parts[1] \o sep \o join(sep, Tail(parts))

\* Outcomes of a call: a returned value or a raised exception.
Return(v) == [kind |-> "return", exc |-> "", value |-> v]

Raise(e, msg) == [kind |-> "raise", exc |-> e, value |-> msg]

NoResult == [kind |-> "none", exc |-> "", value |-> <<>>]

\* ----------------------------------------------------------------- base.py

PortPair(a, b) == [a |-> a, b |-> b]

\* pair_number with the prefix cut off by a slice that is one too long.
pair_number_slice(pp) ==
    LET r == int(SubSeq(pp.a, 6, Len(pp.a)))
    IN  IF r.ok THEN Return(r.value) ELSE Raise("ValueError", pp.a)

\* PortPair.pair_number: int(self.a.lstrip('CNCA'))
pair_number(pp) ==
    LET r == int(lstrip(pp.a, {"C", "N", "A"}))
    IN  IF r.ok THEN Return(r.value) ELSE Raise("ValueError", pp.a)

\* Dict lookup: has key / value under key (KeyError is the caller's case).
dict_has(d, k) == \E i \in 1..Len(d) : d[i][1] = k

dict_get(d, k) == d[CHOOSE i \in 1..Len(d) : d[i][1] = k][2]

\* What a backend's list_ports() hands back: a dict, or None (a body that is
\* only `pass`).
DictValue(items) == [type |-> "dict", items |-> items]

NoneValue == [type |-> "NoneType", items |-> <<>>]

\* get_params that hands back the first listed mapping, whatever the port.
get_params_first(listing, port) ==
    IF listing.type # "dict" THEN Raise("TypeError", port)
    ELSE IF ~dict_has(listing.items, port) THEN Raise("KeyError", port)
    ELSE Return(listing.items[1][2])

\* Com0comBase.get_params: return self.list_ports()[port]
get_params(listing, port) ==
    IF listing.type # "dict" THEN Raise("TypeError", port)
    ELSE IF ~dict_has(listing.items, port) THEN Raise("KeyError", port)
    ELSE Return(dict_get(listing.items, port))

\* --------------------------------------------------------------- runner.py

\* get_com0com_install_directory(): the Install_Dir value of the registry key.
InstallDir == <<"C", ":", "\\", "c", "o", "m", "0", "c", "o", "m">>

SetupcExe == <<"s", "e", "t", "u", "p", "c", ".", "e", "x", "e">>

SilentFlag == <<"-", "-", "s", "i", "l", "e", "n", "t">>

InstallCmd == <<"i", "n", "s", "t", "a", "l", "l">>

FailedPrefix ==
    <<"c", "o", "m", "0", "c", "o", "m", " ", "c", "o", "m", "m", "a", "n", "d",
      " ", "f", "a", "i", "l", "e", "d", ":", " ">>

NoPortNameMsg ==
    <<"d", "i", "d", " ", "n", "o", "t", " ", "g", "e", "t", " ", "p", "o", "r",
      "t", " ", "n", "a", "m", "e", " ", "f", "o", "r", " ", "e", "a", "c", "h",
      " ", "p", "o", "r", "t">>

\* run, line 35: [str(self._com0com_dir / 'setupc.exe'), '--silent'] + args
run_argv(dir, args) == <<dir \o <<"\\">> \o SetupcExe, SilentFlag>> \o args

\* run without check=True: the exit status is ignored.
run_result_unchecked(returncode, stdout) == Return(stdout)

\* run, lines 36-45: check=True turns a non-zero exit into CalledProcessError,
\* which is re-raised as Com0comException carrying the captured output.
run_result(returncode, stdout) ==
    IF returncode # 0
    THEN Raise("Com0comException", FailedPrefix \o stdout)
    ELSE Return(stdout)

\* install_pair._make_param_str
make_param_str(params) ==
    IF params = <<>> THEN <<"-">>
    ELSE join(<<",">>, [i \in 1..Len(params) |->
                           params[i][1] \o <<"=">> \o params[i][2]])

\* install_pair with the two parameter strings in the wrong order.
install_args_swapped(a_params, b_params) ==
    <<InstallCmd, make_param_str(b_params), make_param_str(a_params)>>

\* install_pair, lines 57-58: the argument list handed to run.
install_args(a_params, b_params) ==
    <<InstallCmd, make_param_str(a_params), make_param_str(b_params)>>

\* Number of consecutive digits of s from index i on.
RECURSIVE digit_run(_, _)
digit_run(s, i) ==
    IF i <= Len(s) /\ IsDigit(s[i]) THEN 1 + digit_run(s, i + 1) ELSE 0

NoMatch == [matched |-> FALSE, group1 |-> <<>>, group2 |-> ""]

\* re.match(r'^(CNC([AB])[0-9]+) ', line): [0-9]+ is greedy and the space
\* must follow the whole run of digits.
re_match(line) ==
    LET d == digit_run(line, 5)
    IN  IF /\ Len(line) >= 6
           /\ line[1] = "C" /\ line[2] = "N" /\ line[3] = "C"
           /\ line[4] \in {"A", "B"}
           /\ d >= 1
           /\ Len(line) >= 5 + d
           /\ line[5 + d] = " "
        THEN [matched |-> TRUE, group1 |-> SubSeq(line, 1, 4 + d),
              group2 |-> line[4]]
        ELSE NoMatch

\* install_pair, line 61
stripped_lines(res) ==
    LET ls == splitlines(res) IN [i \in 1..Len(ls) |-> strip(ls[i])]

\* The loop without its else branch: the slots are returned as they are.
RECURSIVE find_ports_no_else(_, _, _, _)
find_ports_no_else(lines, i, a, b) ==
    IF i > Len(lines)
    THEN [result |-> Return(PortPair(a, b)), scanned |-> Len(lines)]
    ELSE LET match == re_match(lines[i])
             a2 == IF match.matched /\ match.group2 = "A"
                   THEN match.group1 ELSE a
             b2 == IF match.matched /\ match.group2 # "A"
                   THEN match.group1 ELSE b
         IN  IF a2 # None /\ b2 # None
             THEN [result |-> Return(PortPair(a2, b2)), scanned |-> i]
             ELSE find_ports_no_else(lines, i + 1, a2, b2)

\* The loop with slots that are filled once and never overwritten.
RECURSIVE find_ports_first_wins(_, _, _, _)
find_ports_first_wins(lines, i, a, b) ==
    IF i > Len(lines)
    THEN [result |-> Raise("Com0comException", NoPortNameMsg),
          scanned |-> Len(lines)]
    ELSE LET match == re_match(lines[i])
             a2 == IF match.matched /\ match.group2 = "A" /\ a = None
                   THEN match.group1 ELSE a
             b2 == IF match.matched /\ match.group2 # "A" /\ b = None
                   THEN match.group1 ELSE b
         IN  IF a2 # None /\ b2 # None
             THEN [result |-> Return(PortPair(a2, b2)), scanned |-> i]
             ELSE find_ports_first_wins(lines, i + 1, a2, b2)

\* The loop with the test of group 2 inverted: the sides are exchanged.
RECURSIVE find_ports_sides_exchanged(_, _, _, _)
find_ports_sides_exchanged(lines, i, a, b) ==
    IF i > Len(lines)
    THEN [result |-> Raise("Com0comException", NoPortNameMsg),
          scanned |-> Len(lines)]
    ELSE LET match == re_match(lines[i])
             a2 == IF match.matched /\ match.group2 # "A"
                   THEN match.group1 ELSE a
             b2 == IF match.matched /\ match.group2 = "A"
                   THEN match.group1 ELSE b
         IN  IF a2 # None /\ b2 # None
             THEN [result |-> Return(PortPair(a2, b2)), scanned |-> i]
             ELSE find_ports_sides_exchanged(lines, i + 1, a2, b2)

\* The loop without its break: every line is scanned, later matches
\* overwrite, and the slots are tested after the last line.
RECURSIVE find_ports_no_break(_, _, _, _)
find_ports_no_break(lines, i, a, b) ==
    IF i > Len(lines)
    THEN IF a # None /\ b # None
         THEN [result |-> Return(PortPair(a, b)), scanned |-> Len(lines)]
         ELSE [result |-> Raise("Com0comException", NoPortNameMsg),
               scanned |-> Len(lines)]
    ELSE LET match == re_match(lines[i])
             a2 == IF match.matched /\ match.group2 = "A"
                   THEN match.group1 ELSE a
             b2 == IF match.matched /\ match.group2 # "A"
                   THEN match.group1 ELSE b
         IN  find_ports_no_break(lines, i + 1, a2, b2)

\* install_pair, lines 62-76: the for loop from line i on with the slots a
\* and b; `scanned` is the number of lines the loop has looked at.
RECURSIVE find_ports(_, _, _, _)
find_ports(lines, i, a, b) ==
    IF i > Len(lines)
    THEN [result |-> Raise("Com0comException", NoPortNameMsg),
          scanned |-> Len(lines)]
    ELSE LET match == re_match(lines[i])
             a2 == IF match.matched /\ match.group2 = "A"
                   THEN match.group1 ELSE a
             b2 == IF match.matched /\ match.group2 # "A"
                   THEN match.group1 ELSE b
         IN  IF a2 # None /\ b2 # None
             THEN [result |-> Return(PortPair(a2, b2)), scanned |-> i]
             ELSE find_ports(lines, i + 1, a2, b2)

\* install_pair that swallows the exception of run and parses its text.
install_pair_result_parses_failure(res) ==
    find_ports(stripped_lines(res.value), 1, None, None)

\* install_pair, lines 57-76, from the outcome of self.run on: an exception
\* of run propagates, its return value is parsed.
install_pair_result(res) ==
    IF res.kind = "raise" THEN [result |-> res, scanned |-> 0]
    ELSE find_ports(stripped_lines(res.value), 1, None, None)

\* Bodies of remove_pair, disable_all, enable_all, change_params, list_ports
\* and busynames: `pass`.
stub_result == Return(None)

\* list_ports of Com0comRunner as get_params sees it.
stub_list_ports == NoneValue

\* ------------------------------------------------------------------ inputs

SeqsUpTo(S, n) == UNION {[1..k -> S] : k \in 0..n}

\* Items of the parameter mappings handed to install_pair and change_params.
ParamItems ==
    {<< <<"a", "a">>, <<"b", "b">> >>, << <<"c", "c">>, <<"d", "d">> >>}

\* Dict[str, str]: keys are unique, the order is the iteration order.
ParamMappings ==
    {p \in SeqsUpTo(ParamItems, MaxParams) :
        \A i, j \in 1..Len(p) : i # j => p[i][1] # p[j][1]}

\* Lines the external command may print (before the line break).
OutputLines ==
    { <<" ", " ", " ", "C", "N", "C", "A", "1", " ", "P", "o", "r", "t", "N",
        "a", "m", "e", "=", "-">>,
      <<"C", "N", "C", "B", "1", " ", "P", "o", "r", "t", "N", "a", "m", "e",
        "=", "-">>,
      <<"C", "N", "C", "A", "2", "2", " ", "-">>,
      <<"\t", "C", "N", "C", "B", "2", " ", "-", " ">>,
      <<"C", "N", "C", "A", "1", " ">>,
      <<>> }

\* The captured text: every line followed by its line break.
RECURSIVE output_text(_)
output_text(ls) ==
    IF ls = <<>> THEN <<>> ELSE Head(ls) \o <<"\n">> \o output_text(Tail(ls))

Outputs == {output_text(ls) : ls \in SeqsUpTo(OutputLines, MaxLines)}

\* Exit statuses of the subprocess.
ReturnCodes == {0, 1}

\* Argument lists of direct calls of run.
RunArgLists ==
    { <<>>, << <<"f", "o", "o">>, <<"b", "a", "r">> >> }

CNCA == <<"C", "N", "C", "A">>

CNCB == <<"C", "N", "C", "B">>

\* Port identifiers asked for and listed.
Ports == {CNCA \o <<"1">>, CNCB \o <<"1">>, CNCA \o <<"2">>}

\* Pairs handed to remove_pair.
PortPairs ==
    {PortPair(CNCA \o <<"1">>, CNCB \o <<"1">>),
     PortPair(CNCA \o <<"2">>, CNCB \o <<"2">>)}

Foo == <<"f", "o", "o">>

ListedParams ==
    { << <<Foo, <<"a", "a", "a">> >> >>, << <<Foo, <<"b", "b", "b">> >> >>, <<>> }

\* What list_ports() of a backend returns: for an implementing backend a dict
\* from port to parameter mapping, for Com0comRunner (body `pass`) None.
Listings ==
    {DictValue(d) : d \in
        {l \in SeqsUpTo(Ports \X ListedParams, 2) :
            \A i, j \in 1..Len(l) : i # j => l[i][1] # l[j][1]}}

BusyPatterns == { <<"C", "O", "M", "?">>, <<"*">> }

\* ------------------------------------------------------------------- state

VARIABLES
    pc,          \* "idle", "blocked" (in subprocess.run), "done"
    call,        \* the operation in progress and its arguments
    com0com_dir, \* Com0comRunner._com0com_dir
    runArgs,     \* the args the current call handed to run
    runCalls,    \* invocations of run by the current call
    spawned,     \* subprocesses started by the current call
    proc,        \* the subprocess: state, argv, cwd, returncode, stdout
    scanned,     \* output lines install_pair's loop has looked at
    result       \* outcome of the current call

vars == <<pc, call, com0com_dir, runArgs, runCalls, spawned, proc, scanned,
          result>>

NoCall == [op |-> "none"]

NoProc == [state |-> "none", argv |-> <<>>, cwd |-> <<>>, returncode |-> 0,
           stdout |-> <<>>]

\* Com0comRunner.__init__, and no call in progress.
Init ==
    /\ pc = "idle"
    /\ call = NoCall
    /\ com0com_dir = InstallDir
    /\ runArgs = <<>>
    /\ runCalls = 0
    /\ spawned = 0
    /\ proc = NoProc
    /\ scanned = 0
    /\ result = NoResult

\* run up to the blocking subprocess.run call.
EnterRun(args) ==
    /\ runArgs' = args
    /\ runCalls' = runCalls + 1
    /\ spawned' = spawned + 1
    /\ proc' = [state |-> "running", argv |-> run_argv(com0com_dir, args),
                cwd |-> com0com_dir, returncode |-> 0, stdout |-> <<>>]
    /\ pc' = "blocked"
    /\ UNCHANGED <<com0com_dir, scanned, result>>

\* A direct call of Com0comRunner.run.
run_call ==
    /\ pc = "idle"
    /\ \E args \in RunArgLists :
         /\ call' = [op |-> "run", args |-> args]
         /\ EnterRun(args)

\* Com0comRunner.install_pair up to the subprocess.
install_pair_call ==
    /\ pc = "idle"
    /\ \E a_params \in ParamMappings, b_params \in ParamMappings :
         /\ call' = [op |-> "install_pair", a_params |-> a_params,
                     b_params |-> b_params]
         /\ EnterRun(install_args(a_params, b_params))

\* The external command exits with a status and its combined output, which
\* ends the blocking subprocess.run call.
SubprocessExit(rc, out) ==
    /\ proc.state = "running"
    /\ proc' = [proc EXCEPT !.state = "exited", !.returncode = rc,
                            !.stdout = out]

\* run from the end of the subprocess on: return its output or raise.
run_return ==
    /\ pc = "blocked"
    /\ call.op = "run"
    /\ \E rc \in ReturnCodes, out \in Outputs :
         /\ SubprocessExit(rc, out)
         /\ result' = run_result(rc, out)
    /\ pc' = "done"
    /\ UNCHANGED <<call, com0com_dir, runArgs, runCalls, spawned, scanned>>

\* install_pair from the end of the subprocess on: run returns or raises,
\* the output is parsed.
install_pair_return ==
    /\ pc = "blocked"
    /\ call.op = "install_pair"
    /\ \E rc \in ReturnCodes, out \in Outputs :
         /\ SubprocessExit(rc, out)
         /\ LET r == install_pair_result(run_result(rc, out))
            IN  /\ result' = r.result
                /\ scanned' = r.scanned
    /\ pc' = "done"
    /\ UNCHANGED <<call, com0com_dir, runArgs, runCalls, spawned>>

\* An operation whose body is `pass`.
Stub(c) ==
    /\ call' = c
    /\ result' = stub_result
    /\ pc' = "done"
    /\ UNCHANGED <<com0com_dir, runArgs, runCalls, spawned, proc, scanned>>

remove_pair ==
    /\ pc = "idle"
    /\ \E port_pair \in PortPairs :
        Stub([op |-> "remove_pair", port_pair |-> port_pair])

disable_all ==
    /\ pc = "idle"
    /\ Stub([op |-> "disable_all"])

enable_all ==
    /\ pc = "idle"
    /\ Stub([op |-> "enable_all"])

change_params ==
    /\ pc = "idle"
    /\ \E port \in Ports, params \in ParamMappings :
        Stub([op |-> "change_params", port |-> port, params |-> params])

list_ports ==
    /\ pc = "idle"
    /\ Stub([op |-> "list_ports"])

busynames ==
    /\ pc = "idle"
    /\ \E pattern \in BusyPatterns :
        Stub([op |-> "busynames", pattern |-> pattern])

\* Com0comBase.get_params on a backend whose list_ports() returns `listing`.
GetParams(backend, listing, port) ==
    /\ call' = [op |-> "get_params", backend |-> backend,
                listing |-> listing, port |-> port]
    /\ result' = get_params(listing, port)
    /\ pc' = "done"
    /\ UNCHANGED <<com0com_dir, runArgs, runCalls, spawned, proc, scanned>>

\* get_params on a backend that implements list_ports.
get_params_call ==
    /\ pc = "idle"
    /\ \E listing \in Listings, port \in Ports :
        GetParams("Com0comDummy", listing, port)

\* get_params on Com0comRunner, whose list_ports is `pass`.
get_params_runner_call ==
    /\ pc = "idle"
    /\ \E port \in Ports : GetParams("Com0comRunner", stub_list_ports, port)

\* PortPair('CNCA<n>', 'CNCB<n>').pair_number
pair_number_call ==
    /\ pc = "idle"
    /\ \E n \in 1..MaxN :
         LET pp == PortPair(CNCA \o str(n), CNCB \o str(n))
         IN  /\ call' = [op |-> "pair_number", n |-> n, port_pair |-> pp]
             /\ result' = pair_number(pp)
    /\ pc' = "done"
    /\ UNCHANGED <<com0com_dir, runArgs, runCalls, spawned, proc, scanned>>

\* The caller has the outcome; the next call starts afresh.
Finish ==
    /\ pc = "done"
    /\ pc' = "idle"
    /\ call' = NoCall
    /\ runArgs' = <<>>
    /\ runCalls' = 0
    /\ spawned' = 0
    /\ proc' = NoProc
    /\ scanned' = 0
    /\ result' = NoResult
    /\ UNCHANGED com0com_dir

Next ==
    \/ run_call
    \/ install_pair_call
    \/ run_return
    \/ install_pair_return
    \/ remove_pair
    \/ disable_all
    \/ enable_all
    \/ change_params
    \/ list_ports
    \/ busynames
    \/ get_params_call
    \/ get_params_runner_call
    \/ pair_number_call
    \/ Finish

Spec == Init /\ [][Next]_vars

\* ------------------------------------------------------------------ claims

Min(S) == CHOOSE x \in S : \A y \in S : x <= y

Max(S) == CHOOSE x \in S : \A y \in S : y <= x

\* The lines install_pair scans, and the indices of those matching a side.
ScanLines == stripped_lines(proc.stdout)

SideMatches(lines, side) ==
    {i \in 1..Len(lines) :
        re_match(lines[i]).matched /\ re_match(lines[i]).group2 = side}

\* The first line up to which both sides have a matching line (0: none).
StopIndex(lines) ==
    LET A == SideMatches(lines, "A")
        B == SideMatches(lines, "B")
    IN  IF A = {} \/ B = {} THEN 0
        ELSE IF Min(A) < Min(B) THEN Min(B) ELSE Min(A)

\* s is the prefix CNC<side> followed by one or more digits.
IsPortId(s, side) ==
    /\ Len(s) >= 5
    /\ SubSeq(s, 1, 4) = <<"C", "N", "C", side>>
    /\ \A i \in 5..Len(s) : IsDigit(s[i])

\* t occurs in s.
Contains(s, t) ==
    \E i \in 0..(Len(s) - Len(t)) : SubSeq(s, i + 1, i + Len(t)) = t

InstallDone == pc = "done" /\ call.op = "install_pair"

RunDone == pc = "done" /\ call.op = "run"

\* C1: install_pair raises Com0comException whenever, after all lines are
\* scanned, the A side or the B side has no matching line, and whenever it
\* returns, both sides had a matching line and neither field is None.
C1_MissingSideRaises ==
    InstallDone =>
        LET A == SideMatches(ScanLines, "A")
            B == SideMatches(ScanLines, "B")
        IN  /\ (proc.returncode = 0 /\ (A = {} \/ B = {})) =>
                (result.kind = "raise" /\ result.exc = "Com0comException")
            /\ result.kind = "return" =>
                /\ A # {} /\ B # {}
                /\ result.value.a # None
                /\ result.value.b # None

\* C1 witness: exit 0, only CNCA lines in the output, the call raised.
C1_Witness ==
    /\ InstallDone
    /\ proc.returncode = 0
    /\ SideMatches(ScanLines, "A") # {}
    /\ SideMatches(ScanLines, "B") = {}
    /\ result = Raise("Com0comException", NoPortNameMsg)

\* C2 (as claimed): the identifier returned for each side is the one of the
\* earliest line matching that side.
C2_FirstMatchWins ==
    (InstallDone /\ result.kind = "return") =>
        LET ls == ScanLines
        IN  /\ result.value.a = re_match(ls[Min(SideMatches(ls, "A"))]).group1
            /\ result.value.b = re_match(ls[Min(SideMatches(ls, "B"))]).group1

\* C2 (amended): the identifier returned for each side is the one of the
\* latest line matching that side among the lines up to and including the
\* line on which both sides first have a match; a later match overwrites an
\* earlier one until the scan stops.
C2_LastMatchBeforeStopWins ==
    (InstallDone /\ result.kind = "return") =>
        LET ls == ScanLines
            k == StopIndex(ls)
            lastOf(side) == Max(SideMatches(ls, side) \cap (1..k))
        IN  /\ k >= 1
            /\ result.value.a = re_match(ls[lastOf("A")]).group1
            /\ result.value.b = re_match(ls[lastOf("B")]).group1

\* C2 witness: two lines matched side A before the first B line, and the
\* returned A identifier is not the one of the first of them.
C2_Witness ==
    /\ InstallDone
    /\ result.kind = "return"
    /\ LET ls == ScanLines
           A == SideMatches(ls, "A")
       IN  /\ Cardinality(A \cap (1..StopIndex(ls))) >= 2
           /\ result.value.a # re_match(ls[Min(A)]).group1

\* C3: when the output has a line matching CNCA<digits> and a line matching
\* CNCB<digits>, install_pair returns a PortPair whose a is a CNCA identifier
\* and whose b is a CNCB identifier, in whichever order the lines come.
C3_AFirstBSecond ==
    (/\ InstallDone
     /\ proc.returncode = 0
     /\ SideMatches(ScanLines, "A") # {}
     /\ SideMatches(ScanLines, "B") # {}) =>
        /\ result.kind = "return"
        /\ IsPortId(result.value.a, "A")
        /\ IsPortId(result.value.b, "B")

\* C3 witness: the first CNCB line precedes the first CNCA line and a
\* PortPair was returned.
C3_Witness ==
    /\ InstallDone
    /\ result.kind = "return"
    /\ LET ls == ScanLines
       IN  Min(SideMatches(ls, "B")) < Min(SideMatches(ls, "A"))

\* C4: run raises Com0comException with the captured output in its message
\* when the subprocess exits non-zero, and returns the captured output
\* unchanged when it exits zero.
C4_RunTwoOutcomes ==
    RunDone =>
        IF proc.returncode # 0
        THEN /\ result.kind = "raise"
             /\ result.exc = "Com0comException"
             /\ Contains(result.value, proc.stdout)
        ELSE /\ result.kind = "return"
             /\ result.value = proc.stdout

\* C4 witness: a direct call of run whose subprocess exited non-zero with
\* some output.
C4_Witness ==
    /\ RunDone
    /\ proc.returncode # 0
    /\ proc.stdout # <<>>
    /\ result.kind = "raise"

\* Offset of entry i in the serialization of p: the entries before it, each
\* with its separator.
RECURSIVE EntryOffset(_, _)
EntryOffset(p, i) ==
    IF i = 1 THEN 0
    ELSE EntryOffset(p, i - 1)
           + Len(p[i - 1][1]) + 1 + Len(p[i - 1][2]) + 1

\* t is '-' for an empty mapping, else the key=value entries of p in order,
\* separated by ','.
IsSerialization(t, p) ==
    IF p = <<>> THEN t = <<"-">>
    ELSE /\ Len(t) = EntryOffset(p, Len(p) + 1) - 1
         /\ \A i \in 1..Len(p) :
              LET o == EntryOffset(p, i)
                  kl == Len(p[i][1])
                  vl == Len(p[i][2])
              IN  /\ SubSeq(t, o + 1, o + kl) = p[i][1]
                  /\ t[o + kl + 1] = "="
                  /\ SubSeq(t, o + kl + 2, o + kl + 1 + vl) = p[i][2]
                  /\ i < Len(p) => t[o + kl + vl + 2] = ","

\* C5: install_pair hands run the list ['install', S(a_params), S(b_params)].
C5_InstallArgs ==
    call.op = "install_pair" =>
        /\ runCalls = 1
        /\ Len(runArgs) = 3
        /\ runArgs[1] = InstallCmd
        /\ IsSerialization(runArgs[2], call.a_params)
        /\ IsSerialization(runArgs[3], call.b_params)

\* C5 witness: install_pair called with two A parameters and one other B
\* parameter.
C5_Witness ==
    /\ call.op = "install_pair"
    /\ pc = "blocked"
    /\ Len(call.a_params) = 2
    /\ Len(call.b_params) = 1
    /\ runArgs[2] # runArgs[3]

\* C6: get_params(port) returns the mapping list_ports() holds under port and
\* fails when port is no key of list_ports().
C6_GetParams ==
    (pc = "done" /\ call.op = "get_params") =>
        LET items == call.listing.items
        IN  IF \E i \in 1..Len(items) : items[i][1] = call.port
            THEN /\ result.kind = "return"
                 /\ \A i \in 1..Len(items) :
                      items[i][1] = call.port => result.value = items[i][2]
            ELSE result.kind = "raise"

\* C6 witness: the listing holds the port asked for and another port with a
\* different mapping.
C6_Witness ==
    /\ pc = "done"
    /\ call.op = "get_params"
    /\ result.kind = "return"
    /\ \E i \in 1..Len(call.listing.items) :
          /\ call.listing.items[i][1] # call.port
          /\ call.listing.items[i][2] # result.value

\* C7: a PortPair built from 'CNCA<n>' and 'CNCB<n>' has pair_number n.
C7_PairNumber ==
    (pc = "done" /\ call.op = "pair_number") =>
        (result.kind = "return" /\ result.value = call.n)

\* C7 witness: pair_number taken of a pair with a three-digit number that has
\* a zero and ones in it.
C7_Witness ==
    /\ pc = "done"
    /\ call.op = "pair_number"
    /\ call.n = 101
    /\ call.port_pair.a = <<"C", "N", "C", "A", "1", "0", "1">>

RunnerOps ==
    {"install_pair", "remove_pair", "disable_all", "enable_all",
     "change_params", "list_ports", "busynames"}

\* C8 (as claimed): every operation of the runner invokes run exactly once,
\* spawns exactly one subprocess and returns only after it has exited.
C8_OneSubprocessPerOperation ==
    (pc = "done" /\ call.op \in RunnerOps) =>
        /\ runCalls = 1
        /\ spawned = 1
        /\ proc.state = "exited"

\* Lines that may follow the line on which the scan stops.
LaterLines == {strip(l) : l \in OutputLines}

Tails == SeqsUpTo(LaterLines, 2)

\* C9: install_pair stops scanning on the line on which the second side
\* becomes recorded, and the PortPair it returns is the one it returns for
\* those lines followed by any other lines.
C9_StopsWhenBothRecorded ==
    (InstallDone /\ result.kind = "return") =>
        LET ls == ScanLines
            k == StopIndex(ls)
        IN  /\ scanned = k
            /\ \A tail \in Tails :
                 find_ports(SubSeq(ls, 1, k) \o tail, 1, None, None).result
                    = result

\* C9 witness: the scan stopped before the last line and a later line
\* matches the pattern too.
C9_Witness ==
    /\ InstallDone
    /\ result.kind = "return"
    /\ scanned < Len(ScanLines)
    /\ \E i \in (scanned + 1)..Len(ScanLines) : re_match(ScanLines[i]).matched

\* C10: no call invokes run more than once; when run fails install_pair
\* raises run's exception, parses nothing and returns no PortPair; when
\* install_pair raises, run was invoked once.
C10_NoRetryNoPartialSuccess ==
    /\ runCalls <= 1
    /\ spawned <= 1
    /\ (InstallDone /\ proc.returncode # 0) =>
          /\ result = Raise("Com0comException", FailedPrefix \o proc.stdout)
          /\ scanned = 0
    /\ (InstallDone /\ result.kind = "raise") =>
          (runCalls = 1 /\ spawned = 1)

\* C10 witness: the command failed although its output names both ports,
\* and install_pair raised.
C10_Witness ==
    /\ InstallDone
    /\ proc.returncode # 0
    /\ StopIndex(ScanLines) >= 1
    /\ result.kind = "raise"

====
